---- MODULE Spec2Model ----
(***************************************************************************)
(* Model of src/app.py: the Streamlit stock analyser.                      *)
(*                                                                         *)
(* Numbers.  The program computes in binary floating point; the model      *)
(* computes the same expressions in exact arithmetic.  A float is a record *)
(* [t, n, d]: t = "num" is the rational n/d (d > 0), t = "nan" is NaN and  *)
(* t = "inf" is +infinity, the two non-finite values the program's         *)
(* divisions can produce.  Close prices are integers (any finite decimal   *)
(* price series is one after scaling).  Prices of the fundamentals         *)
(* snapshot and of the listing bar are integers in thousandths of a rupee, *)
(* so that rounding to 2 decimals is visible.  Percentages are integers in *)
(* hundredths of a percent (the result of round(x, 2)).                    *)
(***************************************************************************)
EXTENDS Integers, Sequences, FiniteSets, TLC

VARIABLES
    pc,             \* position of the script run / of the engine call
    symbol,         \* value of the "Select Stock" selectbox
    df,             \* stock.history(period="6mo"): the Close column
    ind,            \* latest row of the columns buying_recommendation adds to df
    info,           \* stock.info
    hist,           \* stock.history(period="max"): rows [date, open]
    current, prev, momentum,
    listing_date, listing_price, profit_pct,
    perf, rec,
    mcap_text, pe_text,
    clock,          \* datetime.now(), in whole seconds
    files,          \* Stock_Reports: path -> number of the request that wrote it last
    log,            \* what the current script run has done so far
    nreq            \* number of ANALYZE STOCK clicks so far

vars == <<pc, symbol, df, ind, info, hist, current, prev, momentum,
          listing_date, listing_price, profit_pct, perf, rec,
          mcap_text, pe_text, clock, files, log, nreq>>

----------------------------------------------------------------------------
(* Bounds of the model *)

MaxBars == 22          \* longest close series given to buying_recommendation
MaxRequests == 2       \* clicks on ANALYZE STOCK
MaxClock == 2          \* last half second the clock reaches
BasePrice == 100       \* first close of the generated series

(* Program constants *)

SMAWindow == 20        \* rolling(20)
EMASpan == 20          \* ewm(span=20, adjust=False)
RSIWindow == 14        \* rolling(14)
RSILimit == 70         \* latest["RSI"] < 70
FallbackScore == 50    \* except: return 50

----------------------------------------------------------------------------
(* Floats *)

Num(n, d) == [t |-> "num", n |-> n, d |-> d]
NaN == [t |-> "nan", n |-> 0, d |-> 1]
Inf == [t |-> "inf", n |-> 1, d |-> 1]

\* a < b on floats: any comparison with NaN is False
FloatLess(a, b) ==
    IF a.t = "nan" \/ b.t = "nan" THEN FALSE
    ELSE IF a.t = "inf" THEN FALSE
    ELSE IF b.t = "inf" THEN TRUE
    ELSE a.n * b.d < b.n * a.d

\* a / b on non-negative floats (numpy: x/0 is inf, 0/0 is nan, no exception)
FloatDiv(a, b) ==
    IF a.t = "nan" \/ b.t = "nan" THEN NaN
    ELSE IF b.n = 0 THEN (IF a.n = 0 THEN NaN ELSE Inf)
    ELSE Num(a.n * b.d, a.d * b.n)

\* round half to even of n/d, d > 0
RoundHalfEven(n, d) ==
    LET q == n \div d
        r == n % d
    IN  IF 2 * r < d THEN q
        ELSE IF 2 * r > d THEN q + 1
        ELSE IF q % 2 = 0 THEN q ELSE q + 1

\* round(((a - b) / b) * 100, 2), in hundredths of a percent, b > 0
PctChange(a, b) == RoundHalfEven((a - b) * 10000, b)

RECURSIVE SumRange(_, _, _)
SumRange(s, lo, hi) == IF lo > hi THEN 0 ELSE s[hi] + SumRange(s, lo, hi - 1)

----------------------------------------------------------------------------
(* buying_recommendation *)

\* df["Close"].diff() at row i (rows are 1..Len)
Delta(s, i) == IF i = 1 THEN NaN ELSE Num(s[i] - s[i - 1], 1)

\* delta.mask(delta < 0, 0) at row i
GainAt(s, i) ==
    LET x == Delta(s, i) IN IF FloatLess(x, Num(0, 1)) THEN Num(0, 1) ELSE x

\* -delta.mask(delta > 0, 0) at row i
LossAt(s, i) ==
    LET x == Delta(s, i)
        m == IF FloatLess(Num(0, 1), x) THEN Num(0, 1) ELSE x
    IN  IF m.t = "nan" THEN NaN ELSE Num(-m.n, 1)

\* col.rolling(w).mean() at row i of a float column, min_periods = w
RollingMean(col, w, i) ==
    IF i < w \/ \E j \in (i - w + 1)..i : col[j].t = "nan" THEN NaN
    ELSE LET vals == [j \in 1..w |-> col[i - w + j].n]
         IN  Num(SumRange(vals, 1, w), w)

\* df["Close"].rolling(20).mean() at row i
SMA20(s, i) == RollingMean([j \in 1..Len(s) |-> Num(s[j], 1)], SMAWindow, i)

\* 100 - (100 / (1 + rs)) on a float rs >= 0
RSIOf(rs) ==
    IF rs.t = "nan" THEN NaN
    ELSE IF rs.t = "inf" THEN Num(100, 1)
    ELSE Num(100 * rs.n, rs.n + rs.d)

\* df["RSI"] at row i
RSI(s, i) ==
    LET gain == RollingMean([j \in 1..Len(s) |-> GainAt(s, j)], RSIWindow, i)
        loss == RollingMean([j \in 1..Len(s) |-> LossAt(s, j)], RSIWindow, i)
    IN  RSIOf(FloatDiv(gain, loss))

\* An exponential moving average is kept exactly as an integer part ip and
\* the digits of its fraction in base span+1, most significant first.
RECURSIVE MulFrac(_, _, _)
MulFrac(F, m, base) ==
    IF F = <<>> THEN [d |-> <<>>, c |-> 0]
    ELSE LET rest == MulFrac(Tail(F), m, base)
             t == Head(F) * m + rest.c
         IN  [d |-> <<t % base>> \o rest.d, c |-> t \div base]

\* y[t] = (1 - alpha) * y[t-1] + alpha * x[t], alpha = 2 / (span + 1)
EwmStep(e, x, span) ==
    LET mf == MulFrac(e.frac, span - 1, span + 1)
        T == (span - 1) * e.ip + mf.c + 2 * x
    IN  [ip |-> T \div (span + 1), frac |-> <<T % (span + 1)>> \o mf.d]

\* <series>.ewm(span=span, adjust=False).mean() at row i: y[0] = x[0]
RECURSIVE Ewm(_, _, _)
Ewm(s, span, i) ==
    IF i = 1 THEN [ip |-> s[1], frac |-> <<>>]
    ELSE EwmStep(Ewm(s, span, i - 1), s[i], span)

EMA20(s, i) == Ewm(s, EMASpan, i)

\* c > e for an integer c and an exponential moving average e
AboveEma(c, e) == c > e.ip

NoIndicators == [SMA20 |-> NaN, EMA20 |-> [ip |-> 0, frac |-> <<>>], RSI |-> NaN]

\* the latest row of the three columns added to df (df.iloc[-1])
Indicators(s) ==
    IF Len(s) = 0 THEN NoIndicators
    ELSE [SMA20 |-> SMA20(s, Len(s)), EMA20 |-> EMA20(s, Len(s)), RSI |-> RSI(s, Len(s))]

\* Score with >= in place of > against the simple moving average
Score_SmaGe(close, latest) ==
    LET a == IF ~FloatLess(Num(close, 1), latest.SMA20) /\ latest.SMA20.t = "num"
             THEN 40 ELSE 0
        b == IF AboveEma(close, latest.EMA20) THEN 40 ELSE 0
        c == IF FloatLess(latest.RSI, Num(RSILimit, 1)) THEN 20 ELSE 0
        score == a + b + c
    IN  IF score < 100 THEN score ELSE 100

\* the score of lines 53-58
Score(close, latest) ==
    LET a == IF FloatLess(latest.SMA20, Num(close, 1)) THEN 40 ELSE 0
        b == IF AboveEma(close, latest.EMA20) THEN 40 ELSE 0
        c == IF FloatLess(latest.RSI, Num(RSILimit, 1)) THEN 20 ELSE 0
        score == a + b + c
    IN  IF score < 100 THEN score ELSE 100

\* buying_recommendation(df): df.iloc[-1] raises IndexError on an empty frame
buying_recommendation(s) ==
    IF Len(s) = 0 THEN FallbackScore
    ELSE Score(s[Len(s)], Indicators(s))

----------------------------------------------------------------------------
(* performance *)

Windows == << [days |-> 21, label |-> "1 Month"],
              [days |-> 63, label |-> "3 Month"],
              [days |-> 126, label |-> "6 Month"] >>

Labels == {Windows[w].label : w \in DOMAIN Windows}

\* a value shown in the report: a number, or the string "N/A"
Val(v) == [k |-> "num", v |-> v]
NA == [k |-> "N/A", v |-> 0]

\* PerfEntry with >= in place of > in the guard
PerfEntry_GuardGe(s, days) ==
    IF Len(s) >= days
    THEN Val(PctChange(s[Len(s)], s[Len(s) - days + 1]))
    ELSE NA

\* PerfEntry reading iloc[-days - 1] in place of iloc[-days]
PerfEntry_IndexOff(s, days) ==
    IF Len(s) > days
    THEN Val(PctChange(s[Len(s)], s[Len(s) - days]))
    ELSE NA

\* one iteration of the loop of lines 65-69; iloc[-days] is row Len - days + 1
PerfEntry(s, days) ==
    IF Len(s) > days
    THEN Val(PctChange(s[Len(s)], s[Len(s) - days + 1]))
    ELSE NA

performance(s) ==
    [l \in Labels |->
        LET w == CHOOSE x \in DOMAIN Windows : Windows[x].label = l
        IN  PerfEntry(s, Windows[w].days)]

NoPerf == [l \in Labels |-> NA]

----------------------------------------------------------------------------
(* Price series handed to the engine *)

Slopes == -1..1

Max(a, b) == IF a > b THEN a ELSE b
Min(a, b) == IF a < b THEN a ELSE b

\* n closes starting at BasePrice: the close moves by s1 per bar up to row k1,
\* by s2 up to row k2 and by s3 after it
Piecewise(n, k1, k2, s1, s2, s3) ==
    [i \in 1..n |-> BasePrice + s1 * (Min(i, k1) - 1)
                              + s2 * Max(0, Min(i, k2) - k1)
                              + s3 * Max(0, i - k2)]

Positive(s) == \A i \in 1..Len(s) : s[i] > 0

\* series for buying_recommendation: up to m bars
RecSeries(m) ==
    {<<>>} \cup
    UNION {UNION {{Piecewise(n, k1, k2, s1, s2, s3) :
                      k2 \in k1..n, s1 \in Slopes, s2 \in Slopes, s3 \in Slopes} :
                  k1 \in 1..n} : n \in 1..m}

\* lengths around each performance window
PerfLens(m) ==
    (0..m) \cup
    {Windows[w].days + j : w \in DOMAIN Windows, j \in -1..2}

\* series for performance
PerfSeries(m) ==
    UNION {{s \in {Piecewise(n, k, n, s1, s2, 0) :
                      k \in 1..Max(n, 1), s1 \in Slopes, s2 \in Slopes} :
              Positive(s)} : n \in PerfLens(m)}

----------------------------------------------------------------------------
(* State outside a script run *)

\* a field of stock.info: the key is absent, or maps to None, or to a number
Absent == [k |-> "absent", v |-> 0]
None == [k |-> "none", v |-> 0]
Field(v) == [k |-> "num", v |-> v]

NoInfo == [currentPrice |-> Absent, previousClose |-> Absent,
           marketCap |-> Absent, trailingPE |-> Absent]

NoLog == [warned |-> FALSE, fetches |-> 0, computed |-> FALSE,
          written |-> 0, charts |-> 0, error |-> "none"]

\* everything but pc and df, as it is before the first script run
Quiet ==
    /\ symbol = ""
    /\ ind = NoIndicators
    /\ info = NoInfo
    /\ hist = <<>>
    /\ current = None /\ prev = None /\ momentum = 0
    /\ listing_date = NA /\ listing_price = NA /\ profit_pct = NA
    /\ perf = NoPerf /\ rec = 0
    /\ mcap_text = NA /\ pe_text = "N/A"
    /\ clock = 0
    /\ files = << >>
    /\ log = NoLog
    /\ nreq = 0

----------------------------------------------------------------------------
(* The engine functions called on their own *)

InitRec ==
    /\ pc = "input"
    /\ df \in RecSeries(MaxBars)
    /\ Quiet

CallBuyingRecommendation ==
    /\ pc = "input"
    /\ rec' = buying_recommendation(df)
    /\ ind' = Indicators(df)
    /\ pc' = "returned"
    /\ UNCHANGED <<symbol, df, info, hist, current, prev, momentum,
                   listing_date, listing_price, profit_pct, perf,
                   mcap_text, pe_text, clock, files, log, nreq>>

NextRec == CallBuyingRecommendation

SpecRec == InitRec /\ [][NextRec]_vars

InitPerf ==
    /\ pc = "input"
    /\ df \in PerfSeries(MaxBars)
    /\ Quiet

CallPerformance ==
    /\ pc = "input"
    /\ perf' = performance(df)
    /\ pc' = "returned"
    /\ UNCHANGED <<symbol, df, ind, info, hist, current, prev, momentum,
                   listing_date, listing_price, profit_pct, rec,
                   mcap_text, pe_text, clock, files, log, nreq>>

NextPerf == CallPerformance

SpecPerf == InitPerf /\ [][NextPerf]_vars

----------------------------------------------------------------------------
(* The ANALYZE STOCK script run, lines 136-222 *)

Symbols == {"TCS.NS", "INFY.NS"}

\* info.get(key, default)
Get(field, default) == IF field.k = "absent" THEN default ELSE field

\* what stock.info can hold; prices in thousandths, P/E in hundredths
Infos ==
    [currentPrice : {Absent, Field(110000)},
     previousClose : {Absent, None, Field(0), Field(100000)},
     marketCap : {Absent, None, Field(2000000000)},
     trailingPE : {Absent, None, Field(-500), Field(0), Field(1500),
                   Field(2000), Field(2500), Field(3500), Field(4000)}]

\* stock.history(period="6mo"): no bars, or a rising series of MaxBars bars
HandlerSeries == {<<>>, Piecewise(MaxBars, 1, 1, 0, 0, 1)}

\* stock.history(period="max"): rows [date, open], open in thousandths
Hists ==
    {<<>>,
     << [date |-> 1, open |-> 100456], [date |-> 2, open |-> 101000] >>,
     << [date |-> 3, open |-> 4] >>}

\* format_market_cap(value): hundredths of a crore, "N/A" when value/1e7 raises
format_market_cap(value) ==
    IF value.k = "num" THEN Val(RoundHalfEven(value.v, 100000)) ELSE NA

\* pe_rating with < in place of <= at 35
pe_rating_Strict35(pe) ==
    IF pe.k # "num" \/ pe.v <= 0 THEN "N/A"
    ELSE IF pe.v < 20 * 100 THEN "Excellent"
    ELSE IF pe.v < 35 * 100 THEN "Good"
    ELSE "Poor"

\* pe_rating(pe), pe in hundredths
pe_rating(pe) ==
    IF pe.k # "num" \/ pe.v <= 0 THEN "N/A"
    ELSE IF pe.v < 20 * 100 THEN "Excellent"
    ELSE IF pe.v <= 35 * 100 THEN "Good"
    ELSE "Poor"

\* round(x, 2) of a price in thousandths, in thousandths
Round2(x) == 10 * RoundHalfEven(x, 10)

\* line 154
ListingDate(h) == IF h # <<>> THEN Val(h[1].date) ELSE NA

\* ListingPrice reading the last bar in place of the first
ListingPrice_LastBar(h) == IF h # <<>> THEN Val(Round2(h[Len(h)].open)) ELSE NA

\* line 155
ListingPrice(h) == IF h # <<>> THEN Val(Round2(h[1].open)) ELSE NA

\* line 157; a division by a numpy zero gives inf or nan, not an exception
ProfitPct(cur, lp) ==
    IF lp # NA
    THEN IF lp.v = 0
         THEN [k |-> IF cur = 0 THEN "nan" ELSE "inf", v |-> 0]
         ELSE Val(PctChange(cur, lp.v))
    ELSE NA

\* strftime('%d-%m-%Y %H-%M-%S'): the clock runs in half seconds
Stamp(now) == now \div 2

\* the path save_pdf writes, lines 87-88
ReportPath(sym, now) == [symbol |-> sym, stamp |-> Stamp(now)]

\* doc.build(story) on path: creates the file or replaces its content
BuildPdf(fs, path, by) ==
    [p \in DOMAIN fs \cup {path} |->
        IF p = path
        THEN [writer |-> by,
              writes |-> IF path \in DOMAIN fs THEN fs[path].writes + 1 ELSE 1]
        ELSE fs[p]]

Init ==
    /\ pc = "idle"
    /\ df = <<>>
    /\ Quiet

\* the clock advances on its own
Tick ==
    /\ clock < MaxClock
    /\ clock' = clock + 1
    /\ UNCHANGED <<pc, symbol, df, ind, info, hist, current, prev, momentum,
                   listing_date, listing_price, profit_pct, perf, rec,
                   mcap_text, pe_text, files, log, nreq>>

\* lines 136-143: the button is clicked and the script reruns from the top
Click ==
    /\ pc \in {"idle", "warned", "done", "failed"}
    /\ nreq < MaxRequests
    /\ nreq' = nreq + 1
    /\ \E sel \in Symbols \cup {""} :
          /\ symbol' = sel
          /\ IF sel = ""
             THEN pc' = "warned" /\ log' = [NoLog EXCEPT !.warned = TRUE]
             ELSE pc' = "fetch" /\ log' = NoLog
    /\ df' = <<>> /\ ind' = NoIndicators /\ info' = NoInfo /\ hist' = <<>>
    /\ current' = None /\ prev' = None /\ momentum' = 0
    /\ listing_date' = NA /\ listing_price' = NA /\ profit_pct' = NA
    /\ perf' = NoPerf /\ rec' = 0 /\ mcap_text' = NA /\ pe_text' = "N/A"
    /\ UNCHANGED <<clock, files>>

\* lines 145-147
Fetch ==
    /\ pc = "fetch"
    /\ df' \in HandlerSeries
    /\ info' \in Infos
    /\ log' = [log EXCEPT !.fetches = @ + 2]
    /\ pc' = "momentum"
    /\ UNCHANGED <<symbol, ind, hist, current, prev, momentum,
                   listing_date, listing_price, profit_pct, perf, rec,
                   mcap_text, pe_text, clock, files, nreq>>

\* lines 149-151: nothing catches the exception of line 151
Momentum ==
    /\ pc = "momentum"
    /\ LET c == Get(info.currentPrice, Field(0))
           p == Get(info.previousClose, c)
       IN  /\ current' = c
           /\ prev' = p
           /\ IF c.k = "none" \/ p.k = "none"
              THEN /\ pc' = "failed"
                   /\ log' = [log EXCEPT !.error = "TypeError"]
                   /\ UNCHANGED momentum
              ELSE IF p.v = 0
              THEN /\ pc' = "failed"
                   /\ log' = [log EXCEPT !.error = "ZeroDivisionError"]
                   /\ UNCHANGED momentum
              ELSE /\ pc' = "listing"
                   /\ momentum' = PctChange(c.v, p.v)
                   /\ UNCHANGED log
    /\ UNCHANGED <<symbol, df, ind, info, hist,
                   listing_date, listing_price, profit_pct, perf, rec,
                   mcap_text, pe_text, clock, files, nreq>>

\* lines 153-157
Listing ==
    /\ pc = "listing"
    /\ hist' \in Hists
    /\ listing_date' = ListingDate(hist')
    /\ listing_price' = ListingPrice(hist')
    /\ profit_pct' = ProfitPct(current.v, ListingPrice(hist'))
    /\ log' = [log EXCEPT !.fetches = @ + 1]
    /\ pc' = "engine"
    /\ UNCHANGED <<symbol, df, ind, info, current, prev, momentum, perf, rec,
                   mcap_text, pe_text, clock, files, nreq>>

\* lines 159-161
Engine ==
    /\ pc = "engine"
    /\ perf' = performance(df)
    /\ rec' = buying_recommendation(df)
    /\ ind' = Indicators(df)
    /\ log' = [log EXCEPT !.computed = TRUE]
    /\ pc' = "report"
    /\ UNCHANGED <<symbol, df, info, hist, current, prev, momentum,
                   listing_date, listing_price, profit_pct,
                   mcap_text, pe_text, clock, files, nreq>>

\* lines 164-212: the report on screen and report_data
Report ==
    /\ pc = "report"
    /\ mcap_text' = format_market_cap(Get(info.marketCap, Field(0)))
    /\ pe_text' = pe_rating(Get(info.trailingPE, None))
    /\ pc' = "save"
    /\ UNCHANGED <<symbol, df, ind, info, hist, current, prev, momentum,
                   listing_date, listing_price, profit_pct, perf, rec,
                   clock, files, log, nreq>>

\* lines 214-216: save_pdf reads the clock and writes the file
SavePdf ==
    /\ pc = "save"
    /\ files' = BuildPdf(files, ReportPath(symbol, clock), nreq)
    /\ log' = [log EXCEPT !.written = @ + 1]
    /\ pc' = "chart"
    /\ UNCHANGED <<symbol, df, ind, info, hist, current, prev, momentum,
                   listing_date, listing_price, profit_pct, perf, rec,
                   mcap_text, pe_text, clock, nreq>>

\* lines 219-222: one download, the chart plotted twice
Chart ==
    /\ pc = "chart"
    /\ log' = [log EXCEPT !.fetches = @ + 1, !.charts = @ + 2]
    /\ pc' = "done"
    /\ UNCHANGED <<symbol, df, ind, info, hist, current, prev, momentum,
                   listing_date, listing_price, profit_pct, perf, rec,
                   mcap_text, pe_text, clock, files, nreq>>

Next ==
    \/ Tick
    \/ Click
    \/ Fetch
    \/ Momentum
    \/ Listing
    \/ Engine
    \/ Report
    \/ SavePdf
    \/ Chart

Spec == Init /\ [][Next]_vars

----------------------------------------------------------------------------
(* Properties of buying_recommendation, under SpecRec *)

NonDecreasing(s) == \A i \in 2..Len(s) : s[i - 1] <= s[i]

\* C1: for every series of fewer than 20 bars buying_recommendation returns
\* the sentinel 50.
C1_ShortHistoryReturnsSentinel ==
    (pc = "returned" /\ Len(df) < SMAWindow) => rec = FallbackScore

\* C5: a defined RSI-14 lies in [0, 100], and at the last bar of every
\* non-decreasing series of at least 15 closes (a constant one included) it
\* is 100.
C5_RsiBoundedAndSaturates ==
    pc = "returned" =>
        /\ ind.RSI.t = "num" =>
              (0 <= ind.RSI.n /\ ind.RSI.n <= 100 * ind.RSI.d)
        /\ (Len(df) >= RSIWindow + 1 /\ NonDecreasing(df)) =>
              (ind.RSI.t = "num" /\ ind.RSI.n = 100 * ind.RSI.d)

\* EMA[0] = close[0], EMA[i] = close[i]*2/21 + EMA[i-1]*19/21, as integer
\* part and base-21 fraction digits
RECURSIVE C6_Ema(_, _)
C6_Ema(s, i) ==
    IF i = 1 THEN [ip |-> s[1], frac |-> <<>>]
    ELSE LET e == C6_Ema(s, i - 1)
             m == MulFrac(e.frac, 19, 21)
             T == 19 * e.ip + m.c + 2 * s[i]
         IN  [ip |-> T \div 21, frac |-> <<T % 21>> \o m.d]

RECURSIVE C6_Gains(_, _, _)
C6_Gains(s, lo, hi) ==
    IF lo > hi THEN 0 ELSE Max(s[hi] - s[hi - 1], 0) + C6_Gains(s, lo, hi - 1)

RECURSIVE C6_Losses(_, _, _)
C6_Losses(s, lo, hi) ==
    IF lo > hi THEN 0 ELSE Max(s[hi - 1] - s[hi], 0) + C6_Losses(s, lo, hi - 1)

C6_Expected(s) ==
    LET n == Len(s)
        c == s[n]
        G == C6_Gains(s, n - 13, n)
        L == C6_Losses(s, n - 13, n)
        aboveSma == 20 * c > SumRange(s, n - 19, n)
        aboveEma == c > C6_Ema(s, n).ip
        rsiBelow == IF L = 0 THEN 100 < 70 ELSE 100 * G < 70 * (G + L)
    IN  (IF aboveSma THEN 40 ELSE 0) + (IF aboveEma THEN 40 ELSE 0)
        + (IF rsiBelow THEN 20 ELSE 0)

\* C6: with at least 20 bars the result is 40*[close > SMA-20] +
\* 40*[close > EMA-20] + 20*[RSI-14 < 70] at the latest bar, a zero average
\* loss counting as RSI 100; it is one of 0, 20, 40, 60, 80, 100 and never 50.
C6_ScoreFormula ==
    (pc = "returned" /\ Len(df) >= 20) =>
        /\ rec = C6_Expected(df)
        /\ rec \in {0, 20, 40, 60, 80, 100}
        /\ rec # 50

C6_Witness ==
    /\ pc = "returned"
    /\ Len(df) >= 20
    /\ rec = 100

----------------------------------------------------------------------------
(* Properties of performance, under SpecPerf *)

Abs(x) == IF x < 0 THEN -x ELSE x

\* r hundredths of a percent is (a - c)/c*100 rounded to 2 decimals
IsPctRounded(r, a, c) == 2 * Abs(r * c - (a - c) * 10000) <= c

\* closes rise by 1 per bar from 100
LinearFrom100(s) == \A i \in 1..Len(s) : s[i] = 100 + i - 1

\* C2 as stated: with exactly 21 bars "1 Month" is the percent change from
\* the first to the last close (20.0 within 0.01 for closes rising linearly
\* from 100 to 120) and "3 Month", "6 Month" are unavailable.
C2_Original ==
    (pc = "returned" /\ Len(df) = 21) =>
        /\ perf["1 Month"].k = "num"
        /\ IsPctRounded(perf["1 Month"].v, df[21], df[1])
        /\ LinearFrom100(df) => Abs(perf["1 Month"].v - 2000) <= 1
        /\ perf["3 Month"] = NA
        /\ perf["6 Month"] = NA

\* C2 amended: with exactly 21 bars all three labels are unavailable; with
\* exactly 22 bars "1 Month" is the percent change from the second close to
\* the last one (19.8 for closes rising linearly from 100 to 121) and the
\* other two are unavailable.
C2_TwentyOneBarsUnavailable ==
    pc = "returned" =>
        /\ Len(df) = 21 => \A l \in Labels : perf[l] = NA
        /\ Len(df) = 22 =>
              /\ perf["1 Month"].k = "num"
              /\ IsPctRounded(perf["1 Month"].v, df[22], df[2])
              /\ LinearFrom100(df) => perf["1 Month"].v = 1980
              /\ perf["3 Month"] = NA
              /\ perf["6 Month"] = NA

C2_Witness ==
    /\ pc = "returned"
    /\ Len(df) = 21
    /\ LinearFrom100(df)
    /\ df[21] = 120
    /\ perf["1 Month"] = NA

\* C7 as stated: a label is numeric exactly when the series has more bars
\* than dayCount, the value being the rounded percent change from the close
\* dayCount bars before the latest bar; otherwise it is the marker.
C7_Original ==
    pc = "returned" =>
        \A w \in DOMAIN Windows :
            LET days == Windows[w].days
                p == perf[Windows[w].label]
                n == Len(df)
            IN  /\ (p.k = "num") <=> (n > days)
                /\ n > days => IsPctRounded(p.v, df[n], df[n - days])
                /\ n <= days => (p = NA /\ p.k # "num")

\* C7 amended: the same, the reference close being the one at position
\* dayCount counted from the end (the latest bar is position 1), that is
\* dayCount - 1 bars before the latest bar.
C7_WindowChange ==
    pc = "returned" =>
        \A w \in DOMAIN Windows :
            LET days == Windows[w].days
                p == perf[Windows[w].label]
                n == Len(df)
            IN  /\ (p.k = "num") <=> (n > days)
                /\ n > days => IsPctRounded(p.v, df[n], df[n - days + 1])
                /\ n <= days => (p = NA /\ p.k # "num")

C7_Witness ==
    /\ pc = "returned"
    /\ Len(df) = 127
    /\ perf["1 Month"].k = "num" /\ perf["1 Month"].v < 0
    /\ perf["3 Month"].k = "num" /\ perf["3 Month"].v > 0
    /\ perf["6 Month"].k = "num" /\ perf["6 Month"].v > 0

----------------------------------------------------------------------------
(* Properties of the script run, under Spec *)

Finished == pc \in {"done", "failed"}
PastListing == pc \in {"engine", "report", "save", "chart", "done"}
PastReport == pc \in {"save", "chart", "done"}

\* C3: whichever of currentPrice, previousClose, marketCap, trailingPE are
\* absent (or previousClose is 0), an analysis of a selected symbol raises
\* no error and, once over, has produced its report artifact.
C3_MissingFieldsTolerated ==
    (\A f \in DOMAIN info : info[f].k \in {"absent", "num"}) =>
        /\ log.error = "none"
        /\ pc = "done" => log.written = 1

\* C4: no request overwrites the artifact of an earlier request: every file
\* of the output directory has been written once.
C4_NoArtifactOverwritten ==
    \A p \in DOMAIN files : files[p].writes = 1

\* C8: a click with no symbol selected warns and does nothing else, and
\* every analysis of a selected symbol, once over, has written exactly one
\* artifact (stated for snapshots whose fields are absent or numeric).
C8_GuardAndOneArtifact ==
    /\ pc = "warned" => log = [NoLog EXCEPT !.warned = TRUE]
    /\ (Finished /\ \A f \in DOMAIN info : info[f].k \in {"absent", "num"}) =>
          (~log.warned /\ log.written = 1)

\* C9 as stated: the listing price is the first bar's open and the return
\* is (currentPrice - listingPrice)/listingPrice*100.
C9_Original ==
    PastListing =>
        /\ hist = <<>> =>
              (listing_date = NA /\ listing_price = NA /\ profit_pct = NA)
        /\ hist # <<>> =>
              /\ listing_date = Val(hist[1].date)
              /\ listing_price = Val(hist[1].open)
              /\ profit_pct.k = "num"
              /\ profit_pct.v * hist[1].open
                    = (current.v - hist[1].open) * 10000

\* C9 amended: with an empty maximum-window series the listing date, the
\* listing price and the return are all "N/A"; otherwise the listing date is
\* the first bar's date, the listing price is the first bar's open rounded
\* to 2 decimals and, when that price is not zero, the return is
\* (currentPrice - listingPrice)/listingPrice*100 rounded to 2 decimals.
C9_ListingDerivation ==
    PastListing =>
        /\ hist = <<>> =>
              (listing_date = NA /\ listing_price = NA /\ profit_pct = NA)
        /\ hist # <<>> =>
              /\ listing_date = Val(hist[1].date)
              /\ listing_price.k = "num"
              /\ listing_price.v % 10 = 0
              /\ 2 * Abs(listing_price.v - hist[1].open) <= 10
              /\ listing_price.v # 0 =>
                    /\ profit_pct.k = "num"
                    /\ IsPctRounded(profit_pct.v, current.v, listing_price.v)

C9_Witness ==
    /\ pc = "done"
    /\ Len(hist) = 2
    /\ listing_price = Val(100460)
    /\ current = Field(110000)
    /\ profit_pct = Val(950)

\* C10: pe_rating is "N/A" for a null or non-positive P/E, "Excellent"
\* below 20, "Good" from 20 to 35 and "Poor" above 35, and nothing else.
C10_PeRating ==
    PastReport =>
        LET pe == Get(info.trailingPE, None)
            isNum == pe.k = "num"
        IN  /\ pe_text \in {"N/A", "Excellent", "Good", "Poor"}
            /\ (pe_text = "N/A") <=> (~isNum \/ pe.v <= 0)
            /\ (pe_text = "Excellent") <=> (isNum /\ 0 < pe.v /\ pe.v < 2000)
            /\ (pe_text = "Good") <=> (isNum /\ 2000 <= pe.v /\ pe.v <= 3500)
            /\ (pe_text = "Poor") <=> (isNum /\ pe.v > 3500)
            /\ (isNum /\ pe.v = 1500) => pe_text = "Excellent"
            /\ (isNum /\ pe.v = 2500) => pe_text = "Good"
            /\ (isNum /\ pe.v = 4000) => pe_text = "Poor"
            /\ (isNum /\ pe.v = -500) => pe_text = "N/A"

C10_Witness ==
    /\ pc = "done"
    /\ info.trailingPE = Field(3500)
    /\ pe_text = "Good"

====
